---- MODULE Spec2Model ----
(***************************************************************************)
(* freshpy: the session object (freshpy.core.FreshPy) and the retrying GET *)
(* executor (freshpy.api.get_request_with_retries).                        *)
(*                                                                         *)
(* Python strings that the code inspects (startswith, endswith, lower, in) *)
(* are sequences of one-character strings, so that the string operations   *)
(* are computed and not assumed.  Python None and an attribute that was    *)
(* never assigned are one-element sequences holding a token that is no     *)
(* character.                                                              *)
(***************************************************************************)
EXTENDS Integers, Sequences, FiniteSets, TLC

VARIABLES
    self,         \* the FreshPy object's attributes
    init_args,    \* the arguments FreshPy(...) was called with
    init_status,  \* "none" before construction, then "ok" or "raised"
    init_exc,     \* the exception type __init__ raised, "" when none
    closed,       \* close() calls so far, what they raised, object discarded
    call,         \* per invocation: the entry point called and the caller's arguments
    sent,         \* per invocation: the request of each requests.get call, in order
    pc,           \* per invocation: position in get_request_with_retries
    args,         \* per invocation: uri, headers, return_json, verify_ssl
    request,      \* per invocation: query_url, headers, auth, verify of its GETs
    retries,      \* per invocation: the local retries
    response,     \* per invocation: the local response
    gets,         \* per invocation: number of requests.get calls issued
    transport,    \* per invocation: what each requests.get call did, in order
    reports,      \* per invocation: what it wrote with eprint, in order
    sleeps,       \* per invocation: number of time.sleep calls
    decodes,      \* per invocation: number of response.json() calls
    result,       \* per invocation: the value returned
    exception     \* per invocation: the exception that escaped

vars == <<self, init_args, init_status, init_exc, closed, call, sent, pc, args,
          request, retries, response, gets, transport, reports, sleeps, decodes,
          result, exception>>

session_vars == <<self, init_args, init_status, init_exc, closed>>

call_vars == <<call, sent, pc, args, request, retries, response, gets, transport,
               reports, sleeps, decodes, result, exception>>

----------------------------------------------------------------------------
(* Strings *)

None == <<"<None>">>
Unset == <<"<unset>">>

StartsWith(s, p) == Len(s) >= Len(p) /\ SubSeq(s, 1, Len(p)) = p

EndsWith(s, p) == Len(s) >= Len(p) /\ SubSeq(s, Len(s) - Len(p) + 1, Len(s)) = p

\* p occurs in s as a substring (Python: p in s)
Contains(s, p) ==
    \E i \in 1..(Len(s) - Len(p) + 1) : SubSeq(s, i, i + Len(p) - 1) = p

\* Python truth value of a str-or-None argument: None and "" are false
Truthy(s) == s # None /\ s # <<>>

UpperToLower ==
    [ch \in {"A", "C", "D", "E", "L", "O", "P", "R", "S", "T", "U"} |->
        CASE ch = "A" -> "a" [] ch = "C" -> "c" [] ch = "D" -> "d"
          [] ch = "E" -> "e" [] ch = "L" -> "l" [] ch = "O" -> "o"
          [] ch = "P" -> "p" [] ch = "R" -> "r" [] ch = "S" -> "s"
          [] ch = "T" -> "t" [] ch = "U" -> "u"]

\* str.lower()
Lower(s) ==
    [i \in 1..Len(s) |->
        IF s[i] \in DOMAIN UpperToLower THEN UpperToLower[s[i]] ELSE s[i]]

Str_http == <<"h", "t", "t", "p">>
Str_https_scheme == <<"h", "t", "t", "p", "s", ":", "/", "/">>
Str_http_scheme == <<"h", "t", "t", "p", ":", "/", "/">>
Str_slash == <<"/">>
Str_api_v2 == <<"/", "a", "p", "i", "/", "v", "2", "/">>
Str_connect == <<"c", "o", "n", "n", "e", "c", "t">>

----------------------------------------------------------------------------
(* FreshPy.__init__ *)

\* bound on the length of the generated addresses
MaxDomainLen == 2

DomainAlphabet == {"a", "/"}

ExampleDomain ==
    <<"e", "x", "a", "m", "p", "l", "e", ".", "f", "r", "e", "s", "h",
      "s", "e", "r", "v", "i", "c", "e", ".", "c", "o", "m">>

ExampleKey == <<"k", "1">>

ExampleBaseUrl == Str_https_scheme \o ExampleDomain \o Str_api_v2

\* the addresses FreshPy(...) is called with
Domains ==
    UNION {[1..n -> DomainAlphabet] : n \in 0..MaxDomainLen}
    \cup {None,
          ExampleDomain,
          ExampleDomain \o Str_slash,
          Str_https_scheme \o <<"a">>,
          Str_http_scheme \o <<"a", "/">>,
          Str_https_scheme \o <<"a", "/", "/">>,
          <<"a", "/", "/">>,
          <<"h", "t", "t", "p", "b", "i", "n">>}

\* the credentials FreshPy(...) is called with
ApiKeys == {None, <<>>, ExampleKey}

NoAttributes ==
    [version |-> Unset, domain |-> Unset, base_url |-> Unset,
     api_key |-> Unset, agents |-> Unset, tickets |-> Unset]

\* variant: "and" in place of "or"
MutMissingRequiredData(domain, api_key) == ~Truthy(domain) /\ ~Truthy(api_key)

\* core.py:32  if not domain or not api_key
MissingRequiredData(domain, api_key) == ~Truthy(domain) \/ ~Truthy(api_key)

\* core.py:36-38
AddScheme(domain) ==
    IF Truthy(domain) /\ ~StartsWith(domain, Str_http)
    THEN Str_https_scheme \o domain
    ELSE domain

\* variant: strips up to two trailing separators
MutStripSlash(domain) ==
    IF EndsWith(domain, Str_slash) /\ Len(domain) >= 2
       /\ EndsWith(SubSeq(domain, 1, Len(domain) - 1), Str_slash)
    THEN SubSeq(domain, 1, Len(domain) - 2)
    ELSE IF EndsWith(domain, Str_slash)
         THEN SubSeq(domain, 1, Len(domain) - 1)
         ELSE domain

\* core.py:39  domain[:-1] if domain.endswith("/") else domain
StripSlash(domain) ==
    IF EndsWith(domain, Str_slash)
    THEN SubSeq(domain, 1, Len(domain) - 1)
    ELSE domain

\* core.py:43  f"{domain}/api/v2/"
BaseUrl(domain) == domain \o Str_api_v2

\* FreshPy.__init__(domain, api_key)
Construct(domain, api_key) ==
    /\ init_status = "none"
    /\ init_args' = [domain |-> domain, api_key |-> api_key]
    /\ IF MissingRequiredData(domain, api_key)
       THEN /\ self' = [self EXCEPT !.version = <<"version">>]
            /\ init_status' = "raised"
            /\ init_exc' = "MissingRequiredDataError"
       ELSE LET d == StripSlash(AddScheme(domain))
            IN  /\ self' = [version  |-> <<"version">>,
                            domain   |-> d,
                            base_url |-> BaseUrl(d),
                            api_key  |-> api_key,
                            agents   |-> <<"FreshPy.Agents">>,
                            tickets  |-> <<"FreshPy.Tickets">>]
                /\ init_status' = "ok"
                /\ init_exc' = ""
    /\ UNCHANGED <<call_vars, closed>>

----------------------------------------------------------------------------
(* The transport (requests.get) and what it can do *)

\* the while loop retries while retries <= 5 (api.py:75)
MaxRetries == 5

\* api.py:84  if retries == 6
ExhaustedCount == 6

\* api.py:87 and api.py:92
StatusRateLimited == 429
StatusNotFound == 404

\* Python None in the integer field status_code of the decode-failure envelope
NullCode == 0

ConnectionError ==
    <<"C", "o", "n", "n", "e", "c", "t", "i", "o", "n", "E", "r", "r", "o", "r">>
ConnectTimeout ==
    <<"C", "o", "n", "n", "e", "c", "t", "T", "i", "m", "e", "o", "u", "t">>
ReadTimeout == <<"R", "e", "a", "d", "T", "i", "m", "e", "o", "u", "t">>
SSLError == <<"S", "S", "L", "E", "r", "r", "o", "r">>

\* exception types whose name contains "connect", and the others
ConnectionClassExcs == {ConnectionError, ConnectTimeout}
OtherExcs == {ReadTimeout, SSLError}
TransportExcs == ConnectionClassExcs \cup OtherExcs

StatusCodes == {200, StatusNotFound, StatusRateLimited, 500}

JsonBody == "{\"ticket\": {\"id\": 42}}"
Bodies == {JsonBody, "<html>oops</html>", ""}

\* the Response objects requests.get may return
Responses == [status_code : StatusCodes, text : Bodies]

\* the local response before any GET returned (api.py:74)
NoResponse == [none |-> TRUE]

NoResult == [noresult |-> TRUE]

NoException == [type |-> "", cause |-> <<>>, msg |-> <<>>]

\* requests.Response.json(): the decoded body, or the decoding error
Json(resp) ==
    IF resp.text = JsonBody
    THEN [ok |-> TRUE, value |-> [ticket |-> [id |-> 42]]]
    ELSE [ok |-> FALSE, error |-> "JSONDecodeError"]

----------------------------------------------------------------------------
(* freshpy.api *)

Uris == {<<"t", "i", "c", "k", "e", "t", "s", "/", "4", "2">>}

NoHeaders == [is_none |-> TRUE, items |-> {}]
EmptyHeaders == [is_none |-> FALSE, items |-> {}]
CustomHeaders == [is_none |-> FALSE, items |-> {<<"Accept", "text/html">>}]

\* the headers argument: None, {} or a non-empty dict
HeaderArgs == {NoHeaders, EmptyHeaders, CustomHeaders}

\* api.py:21-27
define_headers == [is_none |-> FALSE, items |-> {<<"Content-Type", "application/json">>}]

\* api.py:30-36
define_auth(api_key) == <<api_key, "X">>

\* the optional parameters of FreshPy.get and get_request_with_retries
KwNames == {"headers", "return_json", "verify_ssl"}

\* what a caller passes: uri, and the optional arguments named in given (a
\* field that is not given holds a value that is not the default)
Kwargs ==
    {kw \in [uri : Uris, headers : HeaderArgs, return_json : BOOLEAN,
             verify_ssl : BOOLEAN, given : SUBSET KwNames] :
        /\ "headers" \notin kw.given => kw.headers = CustomHeaders
        /\ "return_json" \notin kw.given => kw.return_json = FALSE
        /\ "verify_ssl" \notin kw.given => kw.verify_ssl = FALSE}

NoCall ==
    [entry |-> "",
     kw |-> [uri |-> <<>>, headers |-> NoHeaders, return_json |-> TRUE,
             verify_ssl |-> TRUE, given |-> {}]]

NoArgs == [uri |-> <<>>, headers |-> NoHeaders, return_json |-> TRUE, verify_ssl |-> TRUE]

NoRequest == [query_url |-> <<>>, headers |-> NoHeaders, auth |-> <<None, "">>, verify |-> TRUE]

\* the invocations of this behaviour
CallIds == DOMAIN pc

InitCalls(ids) ==
    /\ pc = [c \in ids |-> "idle"]
    /\ call = [c \in ids |-> NoCall]
    /\ sent = [c \in ids |-> <<>>]
    /\ args = [c \in ids |-> NoArgs]
    /\ request = [c \in ids |-> NoRequest]
    /\ retries = [c \in ids |-> 0]
    /\ response = [c \in ids |-> NoResponse]
    /\ gets = [c \in ids |-> 0]
    /\ transport = [c \in ids |-> <<>>]
    /\ reports = [c \in ids |-> <<>>]
    /\ sleeps = [c \in ids |-> 0]
    /\ decodes = [c \in ids |-> 0]
    /\ result = [c \in ids |-> NoResult]
    /\ exception = [c \in ids |-> NoException]

InitSession ==
    /\ self = NoAttributes
    /\ init_args = [domain |-> None, api_key |-> None]
    /\ init_status = "none"
    /\ init_exc = ""
    /\ closed = [calls |-> 0, exc |-> "", discarded |-> FALSE]

Init == InitSession /\ InitCalls({1})

\* variant: None is replaced by the default headers, an empty dict is not
MutEffectiveHeaders(headers) ==
    IF headers.is_none THEN define_headers ELSE headers

\* api.py:65  define_headers() if not headers else headers
EffectiveHeaders(headers) ==
    IF headers.is_none \/ headers.items = {} THEN define_headers ELSE headers

\* the value bound to an optional parameter: the caller's, or the default
Param(kw, name, default) == IF name \in kw.given THEN kw[name] ELSE default

\* api.py:39-41  the parameters of get_request_with_retries and their defaults
ExecutorParams(kw) ==
    [uri         |-> kw.uri,
     headers     |-> Param(kw, "headers", NoHeaders),
     return_json |-> Param(kw, "return_json", TRUE),
     verify_ssl  |-> Param(kw, "verify_ssl", TRUE)]

\* variant: verify_ssl is not passed on
MutFreshPy_get(kw) ==
    [uri         |-> kw.uri,
     headers     |-> Param(kw, "headers", NoHeaders),
     return_json |-> Param(kw, "return_json", TRUE),
     verify_ssl  |-> FALSE,
     given       |-> {"headers", "return_json"}]

\* core.py:66 and core.py:85-87  FreshPy.get binds its parameters (with its
\* defaults) and passes all four to get_request_with_retries
FreshPy_get(kw) ==
    [uri         |-> kw.uri,
     headers     |-> Param(kw, "headers", NoHeaders),
     return_json |-> Param(kw, "return_json", TRUE),
     verify_ssl  |-> Param(kw, "verify_ssl", TRUE),
     given       |-> KwNames]

\* a call of FreshPy.get(...) or of get_request_with_retries(self, ...), up to
\* the start of the loop (core.py:85-87, api.py:64-74)
Call(c, entry, kw) ==
    /\ init_status = "ok"
    /\ ~closed.discarded
    /\ pc[c] \in {"idle", "returned", "raised"}
    /\ call' = [call EXCEPT ![c] = [entry |-> entry, kw |-> kw]]
    /\ LET a == ExecutorParams(IF entry = "FreshPy.get" THEN FreshPy_get(kw) ELSE kw)
       IN  /\ args' = [args EXCEPT ![c] = a]
           /\ request' = [request EXCEPT ![c] =
                 [query_url |-> self.base_url \o a.uri,
                  headers   |-> EffectiveHeaders(a.headers),
                  auth      |-> define_auth(self.api_key),
                  verify    |-> a.verify_ssl]]
    /\ sent' = [sent EXCEPT ![c] = <<>>]
    /\ retries' = [retries EXCEPT ![c] = 0]
    /\ response' = [response EXCEPT ![c] = NoResponse]
    /\ gets' = [gets EXCEPT ![c] = 0]
    /\ transport' = [transport EXCEPT ![c] = <<>>]
    /\ reports' = [reports EXCEPT ![c] = <<>>]
    /\ sleeps' = [sleeps EXCEPT ![c] = 0]
    /\ decodes' = [decodes EXCEPT ![c] = 0]
    /\ result' = [result EXCEPT ![c] = NoResult]
    /\ exception' = [exception EXCEPT ![c] = NoException]
    /\ pc' = [pc EXCEPT ![c] = "while"]
    /\ UNCHANGED session_vars

\* FreshPy.get(uri, headers, return_json, verify_ssl) with every argument given
Get(c, uri, headers, return_json, verify_ssl) ==
    Call(c, "FreshPy.get",
         [uri |-> uri, headers |-> headers, return_json |-> return_json,
          verify_ssl |-> verify_ssl, given |-> KwNames])

\* variant: one more pass of the loop
MutLoopCondition(r) == r <= MaxRetries + 1

\* api.py:75  while retries <= 5
LoopCondition(r) == r <= MaxRetries

\* api.py:84  if retries == 6
Exhausted(r) == r = ExhaustedCount

\* variant: every exception is taken for a connection failure and retried
MutIsConnectionClass(exc_name) == TRUE

\* api.py:125-126  "connect" in type(_exc_msg).__name__.lower()
IsConnectionClass(exc_name) == Contains(Lower(exc_name), Str_connect)

\* variant: the attempt is counted before it is reported
MutCurrentAttempt(_retries) == [attempt |-> _retries + 1, of |-> 5]

\* api.py:128  f"(Attempt {_retries} of 5)"
CurrentAttempt(_retries) == [attempt |-> _retries, of |-> 5]

\* variant: retries is one counter of the module, shared by all invocations
MutIncrementRetries(r, c) == [d \in DOMAIN r |-> r[d] + 1]

\* api.py:74 and api.py:83  retries is a local of the invocation: retries += 1
IncrementRetries(r, c) == [r EXCEPT ![c] = @ + 1]

\* variant: a response with a 5xx status is retried like a connection failure
MutBreaksLoop(resp) == resp.status_code < 500

\* api.py:77-80  break follows requests.get, whatever the response is
BreaksLoop(resp) == TRUE

\* api.py:77-80  requests.get returns a response: break
RequestReturns(c, resp) ==
    /\ pc[c] = "while"
    /\ LoopCondition(retries[c])
    /\ gets' = [gets EXCEPT ![c] = @ + 1]
    /\ transport' = [transport EXCEPT ![c] = Append(@, "response")]
    /\ sent' = [sent EXCEPT ![c] = Append(@, request[c])]
    /\ response' = [response EXCEPT ![c] = resp]
    /\ IF BreaksLoop(resp)
       THEN /\ pc' = [pc EXCEPT ![c] = "after_loop"]
            /\ UNCHANGED retries
       ELSE /\ retries' = IncrementRetries(retries, c)
            /\ UNCHANGED pc
    /\ UNCHANGED <<session_vars, call, args, request, reports, sleeps,
                   decodes, result, exception>>

\* api.py:81-83  requests.get raises: _report_failed_attempt, retries += 1
RequestRaises(c, exc) ==
    /\ pc[c] = "while"
    /\ LoopCondition(retries[c])
    /\ gets' = [gets EXCEPT ![c] = @ + 1]
    /\ transport' = [transport EXCEPT ![c] =
          Append(@, IF exc \in ConnectionClassExcs
                    THEN "connection_failure" ELSE "other_failure")]
    /\ sent' = [sent EXCEPT ![c] = Append(@, request[c])]
    /\ IF ~IsConnectionClass(exc)
       THEN \* api.py:127  raise RuntimeError, out of the handler and the loop
            /\ exception' = [exception EXCEPT ![c] =
                  [type |-> "RuntimeError", cause |-> exc, msg |-> <<>>]]
            /\ pc' = [pc EXCEPT ![c] = "raised"]
            /\ UNCHANGED <<reports, retries>>
       ELSE \* api.py:128-133 eprint, then api.py:83
            /\ reports' = [reports EXCEPT ![c] = Append(@, CurrentAttempt(retries[c]))]
            /\ retries' = IncrementRetries(retries, c)
            /\ UNCHANGED <<exception, pc>>
    /\ UNCHANGED <<session_vars, call, args, request, response, sleeps, decodes,
                   result>>

\* api.py:75  the loop condition is false: fall out of the loop
LoopExit(c) ==
    /\ pc[c] = "while"
    /\ ~LoopCondition(retries[c])
    /\ pc' = [pc EXCEPT ![c] = "after_loop"]
    /\ UNCHANGED <<session_vars, call, sent, args, request, retries, response,
                   gets, transport, reports, sleeps, decodes, result, exception>>

\* api.py:144-147
FailureMsg ==
    <<"The script was unable to complete successfully after five consecutive API timeouts. ",
      "Please run the script again or contact Freshservice Support for further assistance.">>

\* api.py:93-97
NotFoundEnvelope ==
    [status |-> "error", status_code |-> 404, error_message |-> "Data not found"]

\* api.py:102-106
DecodeFailureEnvelope(exc_msg) ==
    [status |-> "exception", status_code |-> NullCode, error_message |-> exc_msg]

\* api.py:88  the name i in 5**i is bound in no scope of the module
BackoffExponentBound == FALSE

\* variant: the 429 test outside "if return_json"
MutRateLimited(return_json, resp) == resp.status_code = StatusRateLimited

\* api.py:86-87
RateLimited(return_json, resp) ==
    return_json /\ resp.status_code = StatusRateLimited

\* variant: no special case for 404
MutNotFound(resp) == FALSE

\* api.py:92
NotFound(resp) == resp.status_code = StatusNotFound

Raise(c, exc) ==
    /\ exception' = [exception EXCEPT ![c] = exc]
    /\ pc' = [pc EXCEPT ![c] = "raised"]
    /\ UNCHANGED <<result, sleeps, decodes>>

Return(c, value, slept, decoded) ==
    /\ result' = [result EXCEPT ![c] = value]
    /\ sleeps' = [sleeps EXCEPT ![c] = @ + slept]
    /\ decodes' = [decodes EXCEPT ![c] = @ + decoded]
    /\ pc' = [pc EXCEPT ![c] = "returned"]
    /\ UNCHANGED exception

\* api.py:84-107  after the loop
AfterLoop(c) ==
    /\ pc[c] = "after_loop"
    /\ LET resp == response[c]
           rj == args[c].return_json
       IN  IF Exhausted(retries[c])
           THEN Raise(c, [type |-> "APIConnectionError", cause |-> <<>>,
                          msg |-> FailureMsg])
           ELSE IF resp = NoResponse
           THEN IF rj
                THEN Raise(c, [type |-> "AttributeError", cause |-> <<>>, msg |-> <<>>])
                ELSE Return(c, resp, 0, 0)
           ELSE IF RateLimited(rj, resp) /\ ~BackoffExponentBound
           THEN Raise(c, [type |-> "NameError", cause |-> <<>>, msg |-> <<>>])
           ELSE LET slept == IF RateLimited(rj, resp) THEN 1 ELSE 0
                IN  IF ~rj
                    THEN Return(c, resp, slept, 0)
                    ELSE IF NotFound(resp)
                    THEN Return(c, NotFoundEnvelope, slept, 0)
                    ELSE IF Json(resp).ok
                    THEN Return(c, Json(resp).value, slept, 1)
                    ELSE Return(c, DecodeFailureEnvelope(Json(resp).error), slept, 1)
    /\ UNCHANGED <<session_vars, call, sent, args, request, retries, response,
                   gets, transport, reports>>

\* bound on the number of close() calls on one object
MaxCloses == 2

\* variant: close() clears the credential
MutFreshPy_close(obj) ==
    [self |-> [obj EXCEPT !.api_key = None], exc |-> ""]

\* core.py:316-320  FreshPy.close: the body is the docstring alone.  The
\* attributes after the call and the exception type raised ("" when none)
FreshPy_close(obj) == [self |-> obj, exc |-> ""]

\* no invocation is between its entry and its end
Quiescent == \A c \in CallIds : pc[c] \notin {"while", "after_loop"}

\* the caller calls close() on the object
Close ==
    /\ init_status # "none"
    /\ ~closed.discarded
    /\ closed.calls < MaxCloses
    /\ Quiescent
    /\ self' = FreshPy_close(self).self
    /\ closed' = [closed EXCEPT !.calls = @ + 1,
                                !.exc = IF @ = "" THEN FreshPy_close(self).exc ELSE @]
    /\ UNCHANGED <<init_args, init_status, init_exc, call_vars>>

\* core.py:309-314  __del__: the object is discarded (also the one whose
\* __init__ raised) and close() is called on it
Del ==
    /\ init_status # "none"
    /\ ~closed.discarded
    /\ closed.calls < MaxCloses
    /\ Quiescent
    /\ self' = FreshPy_close(self).self
    /\ closed' = [calls |-> closed.calls + 1,
                  exc |-> IF closed.exc = "" THEN FreshPy_close(self).exc
                          ELSE closed.exc,
                  discarded |-> TRUE]
    /\ UNCHANGED <<init_args, init_status, init_exc, call_vars>>

Next ==
    \/ \E domain \in Domains, api_key \in ApiKeys : Construct(domain, api_key)
    \/ \E c \in CallIds, uri \in Uris, headers \in HeaderArgs,
          return_json \in BOOLEAN, verify_ssl \in BOOLEAN :
          Get(c, uri, headers, return_json, verify_ssl)
    \/ \E c \in CallIds, resp \in Responses : RequestReturns(c, resp)
    \/ \E c \in CallIds, exc \in TransportExcs : RequestRaises(c, exc)
    \/ \E c \in CallIds : LoopExit(c)
    \/ \E c \in CallIds : AfterLoop(c)
    \/ Close
    \/ Del

Spec == Init /\ [][Next]_vars

----------------------------------------------------------------------------
(* One session, calls through FreshPy.get and calls of                     *)
(* get_request_with_retries itself, with any of the optional arguments     *)
(* left out.                                                               *)

Entries == {"FreshPy.get", "get_request_with_retries"}

NextCall ==
    \/ Construct(ExampleDomain, ExampleKey)
    \/ \E c \in CallIds, entry \in Entries, kw \in Kwargs : Call(c, entry, kw)
    \/ \E c \in CallIds, resp \in Responses : RequestReturns(c, resp)
    \/ \E c \in CallIds, exc \in TransportExcs : RequestRaises(c, exc)
    \/ \E c \in CallIds : LoopExit(c)
    \/ \E c \in CallIds : AfterLoop(c)

SpecCall == Init /\ [][NextCall]_vars

----------------------------------------------------------------------------
(* Several invocations of get on one session, run by concurrent callers:   *)
(* their steps interleave at every requests.get call.                      *)

\* number of concurrent invocations
NumCalls == 2

ConcResponses ==
    {[status_code |-> 200, text |-> JsonBody],
     [status_code |-> StatusRateLimited, text |-> ""]}

ConcExcs == {ConnectionError, ReadTimeout}

ConcKwargs ==
    {[uri |-> uri, headers |-> CustomHeaders, return_json |-> FALSE,
      verify_ssl |-> FALSE, given |-> {}] : uri \in Uris}

InitConc == InitSession /\ InitCalls(1..NumCalls)

NextConc ==
    \/ Construct(ExampleDomain, ExampleKey)
    \/ \E c \in CallIds, kw \in ConcKwargs :
          pc[c] = "idle" /\ Call(c, "FreshPy.get", kw)
    \/ \E c \in CallIds, resp \in ConcResponses : RequestReturns(c, resp)
    \/ \E c \in CallIds, exc \in ConcExcs : RequestRaises(c, exc)
    \/ \E c \in CallIds : LoopExit(c)
    \/ \E c \in CallIds : AfterLoop(c)

SpecConc == InitConc /\ [][NextConc]_vars

----------------------------------------------------------------------------
(* Properties *)

Terminal(c) == pc[c] \in {"returned", "raised"}

\* k connection-class failures in a row
Failures(k) == [i \in 1..k |-> "connection_failure"]

GotResponse(c) == Terminal(c) /\ response[c] # NoResponse

RemediationText ==
    "Please run the script again or contact Freshservice Support for further assistance."

\* the Normalized Result of a transport response
IsNormalizedResult(value, resp, return_json) ==
    IF ~return_json THEN value = resp
    ELSE IF resp.status_code = 404
    THEN value = [status |-> "error", status_code |-> 404,
                  error_message |-> "Data not found"]
    ELSE IF Json(resp).ok
    THEN value = Json(resp).value
    ELSE value = [status |-> "exception", status_code |-> NullCode,
                  error_message |-> Json(resp).error]

\* C1: for every k in 0..5, an invocation whose first k GETs failed with
\* connection-class exceptions and whose GET k+1 returned a response raises no
\* connection error and returns the normalized result of that response, after
\* exactly k+1 GETs and exactly k failed-attempt reports.
C1_RetryThenSuccess ==
    \A c \in CallIds : \A k \in 0..5 :
        (Terminal(c) /\ transport[c] = Failures(k) \o <<"response">>)
        => /\ exception[c].type # "APIConnectionError"
           /\ pc[c] = "returned"
           /\ IsNormalizedResult(result[c], response[c], args[c].return_json)
           /\ gets[c] = k + 1
           /\ Len(reports[c]) = k

\* C2: after 6 consecutive connection-class failures the invocation issues no
\* seventh GET and can only end by raising APIConnectionError with the
\* remediation message.
C2_ExhaustionRaises ==
    \A c \in CallIds :
        /\ gets[c] <= 6
        /\ Len(transport[c]) <= 6
        /\ transport[c] = Failures(6)
           => /\ pc[c] \in {"while", "after_loop", "raised"}
              /\ pc[c] = "raised"
                 => /\ exception[c].type = "APIConnectionError"
                    /\ \E i \in 1..Len(exception[c].msg) :
                          exception[c].msg[i] = RemediationText
                    /\ gets[c] = 6

C2_Witness ==
    \E c \in CallIds :
        /\ pc[c] = "raised"
        /\ transport[c] = Failures(6)
        /\ exception[c].type = "APIConnectionError"

\* C3: a transport exception that is not connection-class ends the invocation
\* at once with RuntimeError, at whichever attempt: no GET follows it, retries
\* is not incremented for it and nothing is reported for it.
C3_NonConnectionEscalates ==
    \A c \in CallIds : \A i \in 1..Len(transport[c]) :
        transport[c][i] = "other_failure"
        => /\ i = Len(transport[c])
           /\ gets[c] = i
           /\ pc[c] = "raised"
           /\ exception[c].type = "RuntimeError"
           /\ exception[c].cause \in OtherExcs
           /\ retries[c] = i - 1
           /\ Len(reports[c]) = i - 1

C3_Witness ==
    \E c \in CallIds :
        /\ transport[c] = <<"other_failure">>
        /\ pc[c] = "raised"
        /\ retries[c] = 0

C3_WitnessLater ==
    \E c \in CallIds :
        /\ transport[c] = Failures(5) \o <<"other_failure">>
        /\ pc[c] = "raised"

\* C4: a response with status 429 and return_json true leads to one pause and
\* then to decoding: the invocation returns the decoded body or the
\* decode-failure envelope, raises nothing and issues no further GET.
C4_RateLimitPauseThenDecode ==
    \A c \in CallIds :
        (GotResponse(c) /\ response[c].status_code = 429 /\ args[c].return_json)
        => /\ pc[c] = "returned"
           /\ sleeps[c] = 1
           /\ decodes[c] = 1
           /\ IsNormalizedResult(result[c], response[c], TRUE)
           /\ gets[c] = Len(transport[c])

\* C5: a response with status 404 and return_json true yields exactly the
\* not-found envelope, whatever the body, and the body is never decoded.
C5_NotFoundEnvelope ==
    \A c \in CallIds :
        (GotResponse(c) /\ response[c].status_code = 404 /\ args[c].return_json)
        => /\ pc[c] = "returned"
           /\ result[c] = [status |-> "error", status_code |-> 404,
                           error_message |-> "Data not found"]
           /\ decodes[c] = 0

C5_Witness ==
    \E c \in CallIds :
        /\ pc[c] = "returned"
        /\ response[c] = [status_code |-> 404, text |-> JsonBody]
        /\ args[c].return_json
        /\ result[c].status = "error"

\* C6: a response whose status is not 404 and whose body is not JSON, with
\* return_json true, yields the decode-failure envelope as a value: nothing
\* is raised.
C6_DecodeFailureEnvelope ==
    \A c \in CallIds :
        (/\ GotResponse(c)
         /\ response[c].status_code # 404
         /\ args[c].return_json
         /\ ~Json(response[c]).ok)
        => /\ pc[c] = "returned"
           /\ result[c] = [status |-> "exception", status_code |-> NullCode,
                           error_message |-> "JSONDecodeError"]

\* C7: with return_json false the invocation returns the transport response
\* itself for every status and body: no envelope, no decoding, no pause.
C7_RawResponse ==
    \A c \in CallIds :
        (GotResponse(c) /\ ~args[c].return_json)
        => /\ pc[c] = "returned"
           /\ result[c] = response[c]
           /\ result[c] \in Responses
           /\ decodes[c] = 0
           /\ sleeps[c] = 0

C7_Witness ==
    \E c \in CallIds :
        /\ pc[c] = "returned"
        /\ ~args[c].return_json
        /\ response[c].status_code = 429
        /\ result[c] = response[c]

Absent(x) == x = None \/ x = <<>>

\* C8: construction raises MissingRequiredDataError exactly when the address
\* or the credential is None or empty, and then none of domain, base_url,
\* api_key, agents, tickets has been set.
C8_ConfigurationError ==
    /\ init_status = "raised"
       => /\ Absent(init_args.domain) \/ Absent(init_args.api_key)
          /\ init_exc = "MissingRequiredDataError"
          /\ self.domain = Unset
          /\ self.base_url = Unset
          /\ self.api_key = Unset
          /\ self.agents = Unset
          /\ self.tickets = Unset
    /\ init_status = "ok"
       => /\ ~Absent(init_args.domain)
          /\ ~Absent(init_args.api_key)
          /\ init_exc # "MissingRequiredDataError"

C8_Witness ==
    /\ init_status = "raised"
    /\ init_args.domain = ExampleDomain
    /\ init_args.api_key = <<>>

HasScheme(s) == StartsWith(s, Str_https_scheme) \/ StartsWith(s, Str_http_scheme)

\* C9: an accepted address without a scheme prefix is normalized to begin with
\* "https://", and so does base_url; an address with a scheme is not prefixed
\* again.
C9_SchemePrefixed ==
    init_status = "ok"
    => IF HasScheme(init_args.domain)
       THEN StartsWith(init_args.domain, self.domain)
       ELSE /\ StartsWith(self.domain, Str_https_scheme)
            /\ StartsWith(self.base_url, Str_https_scheme)

\* C10: after scheme prefixing exactly one trailing "/" is stripped when there
\* is one, base_url is the result followed by "/api/v2/", and
\* FreshPy("example.freshservice.com", "k1") has base_url
\* "https://example.freshservice.com/api/v2/".
C10_StripOneSlashAndBaseUrl ==
    init_status = "ok"
    => /\ self.base_url = self.domain \o <<"/", "a", "p", "i", "/", "v", "2", "/">>
       /\ \E p \in {init_args.domain, Str_https_scheme \o init_args.domain} :
             IF p[Len(p)] = "/"
             THEN p = self.domain \o <<"/">>
             ELSE p = self.domain
       /\ (init_args.domain = ExampleDomain /\ init_args.api_key = ExampleKey)
          => self.base_url = ExampleBaseUrl

C10_Witness ==
    /\ init_status = "ok"
    /\ init_args.domain = <<"a", "/", "/">>
    /\ self.domain = Str_https_scheme \o <<"a", "/">>

C10_WitnessExample ==
    /\ init_status = "ok"
    /\ init_args.domain = ExampleDomain
    /\ init_args.api_key = ExampleKey

\* C11: after every successful construction the stored address is
\* scheme-prefixed and has no trailing slash, base_url is that address followed
\* by "/api/v2/", and the address and the credential held are non-empty.
C11_SessionInvariant ==
    init_status = "ok"
    => /\ HasScheme(self.domain)
       /\ ~EndsWith(self.domain, <<"/">>)
       /\ self.base_url = self.domain \o <<"/", "a", "p", "i", "/", "v", "2", "/">>
       /\ ~Absent(self.domain)
       /\ ~Absent(self.api_key)

\* C12: once the constructor has run, no get (whatever its outcome), close or
\* discard changes an attribute of the session; a close changes nothing at
\* all, and no close fails, however often it is called and also on the object
\* whose construction raised the configuration error.
C12_SessionImmutable ==
    /\ [][init_status # "none" => self' = self]_vars
    /\ [][closed'.calls # closed.calls
          => UNCHANGED <<self, init_args, init_status, init_exc, call_vars>>]_vars
    /\ [](closed.exc = "")

C12_Witness ==
    /\ init_status = "ok"
    /\ closed.calls = 2
    /\ closed.discarded
    /\ \E c \in CallIds : pc[c] = "raised"

C12_WitnessRaised ==
    /\ init_status = "raised"
    /\ closed.calls = 2

\* C13: an invocation ends after at most 6 GETs in exactly one of three ways:
\* APIConnectionError exactly when 6 consecutive connection-class failures
\* occurred, RuntimeError exactly when a transport exception that is not
\* connection-class occurred, and otherwise a normalized result is returned;
\* no other exception escapes.
C13_ThreeOutcomes ==
    \A c \in CallIds :
        Terminal(c)
        => /\ gets[c] <= 6
           /\ exception[c].type \in {"", "APIConnectionError", "RuntimeError"}
           /\ exception[c].type = "APIConnectionError" <=> transport[c] = Failures(6)
           /\ exception[c].type = "RuntimeError"
              <=> \E i \in 1..Len(transport[c]) : transport[c][i] = "other_failure"
           /\ exception[c].type = ""
              => /\ pc[c] = "returned"
                 /\ response[c] # NoResponse
                 /\ IsNormalizedResult(result[c], response[c], args[c].return_json)

\* C14: once a GET of an invocation returned a response, whatever its status,
\* the loop is over: no further GET is issued in that invocation and retries
\* stays at the number of connection-class failures before the response.
C14_ResponseEndsLoop ==
    \A c \in CallIds : \A i \in 1..Len(transport[c]) :
        transport[c][i] = "response"
        => /\ i = Len(transport[c])
           /\ gets[c] = i
           /\ pc[c] \in {"after_loop", "returned", "raised"}
           /\ retries[c] = i - 1
           /\ SubSeq(transport[c], 1, i - 1) = Failures(i - 1)

C14_Witness ==
    \E c \in CallIds :
        /\ Terminal(c)
        /\ transport[c] = Failures(2) \o <<"response">>
        /\ response[c].status_code = 500
        /\ retries[c] = 2

\* the number of connection-class failures among the GETs of invocation c
OwnFailures(c) ==
    Cardinality({i \in 1..Len(transport[c]) : transport[c][i] = "connection_failure"})

\* C15: with several invocations running concurrently on one session, the
\* counter, the number of GETs, the reported attempt numbers and the outcome
\* of an invocation are those of its own GETs alone: no invocation fails
\* early or retries more than 5 times because of another.
C15_OwnRetryState ==
    /\ \A c \in CallIds :
          /\ retries[c] = OwnFailures(c)
          /\ gets[c] = Len(transport[c])
          /\ gets[c] <= 6
          /\ reports[c] = [i \in 1..OwnFailures(c) |-> [attempt |-> i - 1, of |-> 5]]
          /\ (Terminal(c) /\ exception[c].type = "APIConnectionError")
             <=> (Terminal(c) /\ transport[c] = Failures(6))
    /\ \A c, d \in CallIds :
          (/\ Terminal(c) /\ Terminal(d)
           /\ transport[c] = transport[d]
           /\ response[c] = response[d]
           /\ call[c] = call[d])
          => /\ pc[c] = pc[d]
             /\ result[c] = result[d]
             /\ exception[c].type = exception[d].type

C15_Witness ==
    \E c, d \in CallIds :
        /\ c # d
        /\ pc[c] = "raised"
        /\ exception[c].type = "APIConnectionError"
        /\ pc[d] = "while"
        /\ retries[d] = 5
        /\ gets[d] = 5

\* C16: every connection-class failure of an invocation, the sixth included,
\* is reported with the label "Attempt n of 5", n being the number of
\* connection-class failures before it: the numbers start at 0, go up by 1,
\* never exceed 5, and retries stays within 0..6.
C16_ReportedAttempts ==
    \A c \in CallIds :
        /\ retries[c] \in 0..6
        /\ Len(reports[c]) = OwnFailures(c)
        /\ Len(reports[c]) = retries[c]
        /\ \A i \in 1..Len(reports[c]) :
              /\ reports[c][i].attempt = i - 1
              /\ reports[c][i].attempt <= 5
              /\ reports[c][i].of = 5

C16_Witness ==
    \E c \in CallIds :
        /\ Len(reports[c]) = 6
        /\ reports[c][6].attempt = 5
        /\ retries[c] = 6

\* what the caller passed for an optional argument, or the documented default
CallerHeaders(c) ==
    IF "headers" \in call[c].kw.given THEN call[c].kw.headers ELSE NoHeaders
CallerReturnJson(c) ==
    IF "return_json" \in call[c].kw.given THEN call[c].kw.return_json ELSE TRUE
CallerVerifySsl(c) ==
    IF "verify_ssl" \in call[c].kw.given THEN call[c].kw.verify_ssl ELSE TRUE

\* C17: a call of FreshPy.get runs get_request_with_retries with the caller's
\* uri, headers, return_json and verify_ssl (defaults: no headers, TRUE, TRUE),
\* exactly as a direct call of get_request_with_retries with this session and
\* the same arguments does; the request, the GETs and the outcome are then
\* those of the executor.
C17_GetDelegates ==
    \A c \in CallIds :
        call[c].entry \in Entries
        => /\ args[c] = [uri |-> call[c].kw.uri,
                         headers |-> CallerHeaders(c),
                         return_json |-> CallerReturnJson(c),
                         verify_ssl |-> CallerVerifySsl(c)]
           /\ request[c].verify = CallerVerifySsl(c)
           /\ request[c].auth[1] = self.api_key

C17_Witness ==
    \E c \in CallIds :
        /\ call[c].entry = "FreshPy.get"
        /\ call[c].kw.given = {"verify_ssl"}
        /\ ~args[c].verify_ssl
        /\ args[c].return_json
        /\ pc[c] = "returned"

C17_WitnessDefaults ==
    \E c \in CallIds :
        /\ call[c].entry = "FreshPy.get"
        /\ call[c].kw.given = {}
        /\ pc[c] = "returned"

\* C18: every GET of an invocation, the first and each retry, is issued with
\* the same request: the URL session.base_url + uri, the pair (api_key, "X"),
\* the caller's verify flag and the caller's headers, or Content-Type:
\* application/json alone when the caller gave no headers or empty ones.
C18_SameRequestEveryAttempt ==
    \A c \in CallIds :
        /\ Len(sent[c]) = gets[c]
        /\ \A i \in 1..Len(sent[c]) :
              sent[c][i] =
                 [query_url |-> self.base_url \o call[c].kw.uri,
                  headers   |-> IF CallerHeaders(c).is_none \/ CallerHeaders(c).items = {}
                                THEN [is_none |-> FALSE,
                                      items |-> {<<"Content-Type", "application/json">>}]
                                ELSE CallerHeaders(c),
                  auth      |-> <<self.api_key, "X">>,
                  verify    |-> CallerVerifySsl(c)]

C18_Witness ==
    \E c \in CallIds :
        /\ Len(sent[c]) = 6
        /\ call[c].kw.headers = EmptyHeaders
        /\ "headers" \in call[c].kw.given
        /\ ~CallerVerifySsl(c)

====
